---- MODULE Spec2Model ----
(***************************************************************************)
(* Model of src/sentences/dbs.rs: the DBS (Depth Below Surface) sentence   *)
(* decoder.  parse_dbs compares the sentence tag and hands the payload to   *)
(* do_parse_dbs, a nine-step chain of nom parsers, each followed by `?`.   *)
(* A string is a sequence of one-character strings.  A decoded f32 is the  *)
(* decimal value of its literal, [neg, mant, exp] with mant * 10^exp       *)
(* normalised (no trailing zero in mant), or one of the kinds inf / nan.   *)
(***************************************************************************)
EXTENDS Integers, Sequences, FiniteSets, TLC

VARIABLES message_id, data, pc, i, water_depth_feet, water_depth_meters,
          water_depth_fathoms, result, trace

vars == <<message_id, data, pc, i, water_depth_feet, water_depth_meters,
          water_depth_fathoms, result, trace>>

(***************************************************************************)
(* Bounds of the input space.                                              *)
(***************************************************************************)
NumLits == 5
MaxDefects == 1
MaxTail == 2

(***************************************************************************)
(* Sequence helpers.                                                       *)
(***************************************************************************)
Drop(s, n) == SubSeq(s, n + 1, Len(s))

Take(s, n) == SubSeq(s, 1, n)

At(s, n) == IF n >= 1 /\ n <= Len(s) THEN s[n] ELSE "EOF"

IsPrefix(p, s) == Len(p) <= Len(s) /\ Take(s, Len(p)) = p

(***************************************************************************)
(* Option<T> and the f32 values.                                           *)
(***************************************************************************)
None == [some |-> FALSE]

Some(v) == [some |-> TRUE, val |-> v]

RECURSIVE Normalize(_, _, _)
Normalize(neg, m, e) ==
    IF m = 0 THEN [kind |-> "num", neg |-> neg, mant |-> 0, exp |-> 0]
    ELSE IF m % 10 = 0 THEN Normalize(neg, m \div 10, e + 1)
    ELSE [kind |-> "num", neg |-> neg, mant |-> m, exp |-> e]

Num(neg, m, e) == Normalize(neg, m, e)

(***************************************************************************)
(* nom::character::complete::digit1 : the longest run of ASCII digits.     *)
(***************************************************************************)
Digits == {"0", "1", "2", "3", "4", "5", "6", "7", "8", "9"}

DigitChars == <<"0", "1", "2", "3", "4", "5", "6", "7", "8", "9">>

DigitVal(c) == (CHOOSE k \in 1..10 : DigitChars[k] = c) - 1

RECURSIVE CountDigits(_)
CountDigits(s) ==
    IF s = <<>> \/ Head(s) \notin Digits THEN 0 ELSE 1 + CountDigits(Tail(s))

RECURSIVE ToNat(_)
ToNat(s) ==
    IF s = <<>> THEN 0 ELSE 10 * ToNat(Take(s, Len(s) - 1)) + DigitVal(s[Len(s)])

(***************************************************************************)
(* nom parser outcomes: Ok((rest, out)) or Err(Error | Failure) carrying   *)
(* the input the error was raised at and its ErrorKind.                    *)
(***************************************************************************)
POk(rest, out) == [kind |-> "Ok", rest |-> rest, out |-> out]

PErr(sev, input, code) == [kind |-> sev, input |-> input, code |-> code]

(***************************************************************************)
(* Faulty variants of char: one takes whatever character comes next, one   *)
(* treats the end of the input as a match.                                 *)
(***************************************************************************)
char_any(c, s) ==
    IF s # <<>> THEN POk(Tail(s), Head(s))
    ELSE PErr("Error", s, "Char")

char_eof_ok(c, s) ==
    IF s = <<>> THEN POk(s, c)
    ELSE IF Head(s) = c THEN POk(Tail(s), c)
    ELSE PErr("Error", s, "Char")

(***************************************************************************)
(* nom::character::complete::char(c): the next character must be c.        *)
(***************************************************************************)
char(c, s) ==
    IF s # <<>> /\ Head(s) = c THEN POk(Tail(s), c)
    ELSE PErr("Error", s, "Char")

(***************************************************************************)
(* nom::number::complete::recognize_float: the length of                   *)
(*   sign? , digits with an optional '.' and more digits, or '.' digits ,  *)
(*   then optionally [eE] sign? cut(digits)                                *)
(* at the head of s.  len = 0 with kind "Error" when no mantissa is there, *)
(* kind "Failure" when an exponent marker is not followed by digits.       *)
(***************************************************************************)
recognize_float(s) ==
    LET p1 == IF At(s, 1) \in {"+", "-"} THEN 1 ELSE 0
        n1 == CountDigits(Drop(s, p1))
        nf == CountDigits(Drop(s, p1 + n1 + 1))
        hasMant == n1 > 0 \/ (At(s, p1 + 1) = "." /\ nf > 0)
        p3 == IF n1 > 0
              THEN (IF At(s, p1 + n1 + 1) = "." THEN p1 + n1 + 1 + nf ELSE p1 + n1)
              ELSE p1 + 1 + nf
        hasE == At(s, p3 + 1) \in {"e", "E"}
        p5 == IF At(s, p3 + 2) \in {"+", "-"} THEN p3 + 2 ELSE p3 + 1
        ne == CountDigits(Drop(s, p5))
    IN  IF ~hasMant THEN [kind |-> "Error", len |-> 0]
        ELSE IF ~hasE THEN [kind |-> "Ok", len |-> p3]
        ELSE IF ne = 0 THEN [kind |-> "Failure", len |-> 0]
        ELSE [kind |-> "Ok", len |-> p5 + ne]

(***************************************************************************)
(* nom::bytes::complete::tag_no_case over the letters of nan/inf/infinity. *)
(***************************************************************************)
Lower(c) ==
    CASE c = "N" -> "n" [] c = "A" -> "a" [] c = "I" -> "i" [] c = "F" -> "f"
      [] c = "T" -> "t" [] c = "Y" -> "y" [] OTHER -> c

tag_no_case(t, s) ==
    /\ Len(t) <= Len(s)
    /\ \A k \in 1..Len(t) : Lower(s[k]) = t[k]

(***************************************************************************)
(* nom::number::complete::recognize_float_or_exceptions: alt of            *)
(* recognize_float, "nan", "inf", "infinity"; every error is re-raised at  *)
(* the input the float was attempted at.                                   *)
(***************************************************************************)
recognize_float_or_exceptions(s) ==
    LET r == recognize_float(s)
    IN  IF r.kind = "Ok" THEN POk(Drop(s, r.len), Take(s, r.len))
        ELSE IF r.kind = "Failure" THEN PErr("Failure", s, "Float")
        ELSE IF tag_no_case(<<"n", "a", "n">>, s) THEN POk(Drop(s, 3), Take(s, 3))
        ELSE IF tag_no_case(<<"i", "n", "f">>, s) THEN POk(Drop(s, 3), Take(s, 3))
        ELSE IF tag_no_case(<<"i", "n", "f", "i", "n", "i", "t", "y">>, s)
             THEN POk(Drop(s, 8), Take(s, 8))
        ELSE PErr("Error", s, "Float")

(***************************************************************************)
(* str::parse::<f32> (nom's ParseTo): the value of a recognised literal,   *)
(* None when the text holds no digit and is not inf / nan.                 *)
(***************************************************************************)
FirstIn(s, set) ==
    IF \E k \in 1..Len(s) : s[k] \in set
    THEN CHOOSE k \in 1..Len(s) : s[k] \in set /\ \A j \in 1..(k - 1) : s[j] \notin set
    ELSE 0

SignedNat(s) ==
    IF At(s, 1) = "-" THEN 0 - ToNat(Drop(s, 1))
    ELSE IF At(s, 1) = "+" THEN ToNat(Drop(s, 1))
    ELSE ToNat(s)

parse_to(s) ==
    LET neg  == At(s, 1) = "-"
        body == IF At(s, 1) \in {"+", "-"} THEN Drop(s, 1) ELSE s
        ePos == FirstIn(body, {"e", "E"})
        mantS == IF ePos = 0 THEN body ELSE Take(body, ePos - 1)
        expS  == IF ePos = 0 THEN <<>> ELSE Drop(body, ePos)
        dot  == FirstIn(mantS, {"."})
        intS == IF dot = 0 THEN mantS ELSE Take(mantS, dot - 1)
        fracS == IF dot = 0 THEN <<>> ELSE Drop(mantS, dot)
    IN  IF tag_no_case(<<"n", "a", "n">>, body) /\ Len(body) = 3
        THEN Some([kind |-> "nan"])
        ELSE IF tag_no_case(<<"i", "n", "f">>, body) /\ Len(body) = 3
        THEN Some([kind |-> "inf", neg |-> neg])
        ELSE IF Len(intS) + Len(fracS) = 0 THEN None
        ELSE Some(Num(neg, ToNat(intS \o fracS), SignedNat(expS) - Len(fracS)))

(***************************************************************************)
(* nom::number::complete::float                                            *)
(***************************************************************************)
float(s) ==
    LET r == recognize_float_or_exceptions(s)
    IN  IF r.kind # "Ok" THEN r
        ELSE LET f == parse_to(r.out)
             IN  IF f.some THEN POk(r.rest, f.val)
                 ELSE PErr("Error", r.rest, "Float")

(***************************************************************************)
(* Faulty variants of opt: one drops a character when no value is there,   *)
(* one also turns an Err::Failure into None.                               *)
(***************************************************************************)
opt_skip(r, s) ==
    IF r.kind = "Ok" THEN POk(r.rest, Some(r.out))
    ELSE IF r.kind = "Error" THEN POk(Drop(s, 1), None)
    ELSE r

opt_lenient(r, s) ==
    IF r.kind = "Ok" THEN POk(r.rest, Some(r.out)) ELSE POk(s, None)

(***************************************************************************)
(* nom::combinator::opt: an Err::Error becomes Ok((input, None)); an       *)
(* Err::Failure passes through.                                            *)
(***************************************************************************)
opt(r, s) ==
    IF r.kind = "Ok" THEN POk(r.rest, Some(r.out))
    ELSE IF r.kind = "Error" THEN POk(s, None)
    ELSE r

(***************************************************************************)
(* impl From<nom::Err<..>> for Error: the parse error keeps the nom error. *)
(***************************************************************************)
FromNomErr(r) ==
    [variant |-> "ParsingError", severity |-> r.kind, code |-> r.code,
     input |-> r.input]

(***************************************************************************)
(* The `?` operator after each parser call.                                *)
(***************************************************************************)
Try(r) ==
    IF r.kind = "Ok" THEN [kind |-> "Continue", rest |-> r.rest, out |-> r.out]
    ELSE [kind |-> "Return", result |-> [kind |-> "Err", error |-> FromNomErr(r)]]

(***************************************************************************)
(* SentenceType tags and the payloads handed to the decoder.               *)
(***************************************************************************)
SentenceType == {"DBS", "DBT", "DPT"}

LitTable ==
    << [lit |-> <<"7", ".", "8">>,      val |-> [kind |-> "num", neg |-> FALSE, mant |-> 78, exp |-> -1]],
       [lit |-> <<"2", "2", ".", "5">>, val |-> [kind |-> "num", neg |-> FALSE, mant |-> 225, exp |-> -1]],
       [lit |-> <<"2", ".", "4">>,      val |-> [kind |-> "num", neg |-> FALSE, mant |-> 24, exp |-> -1]],
       [lit |-> <<"1", ".", "3">>,      val |-> [kind |-> "num", neg |-> FALSE, mant |-> 13, exp |-> -1]],
       [lit |-> <<"I", "N", "F">>,      val |-> [kind |-> "inf", neg |-> FALSE]],
       [lit |-> <<"-", "3", "0">>,      val |-> [kind |-> "num", neg |-> TRUE, mant |-> 3, exp |-> 1]],
       [lit |-> <<"1", "e", "2">>,      val |-> [kind |-> "num", neg |-> FALSE, mant |-> 1, exp |-> 2]] >>

LitIdx == 1..(IF NumLits <= Len(LitTable) THEN NumLits ELSE Len(LitTable))

Lits == {LitTable[k].lit : k \in LitIdx}

ValueOf(lit) == LitTable[CHOOSE k \in LitIdx : LitTable[k].lit = lit].val

OddVals == {<<"1", "e">>, <<"-">>}

UnitOf == <<"f", "M", "F">>

WrongUnit == <<"x", "Z", "f">>

Tail3 == <<",", "A", "*">>

Shapes ==
    [v : [1..3 -> Lits \cup {<<>>} \cup OddVals],
     s : [1..3 -> BOOLEAN],
     u : [1..3 -> {"ok", "wrong", "missing"}],
     g : [1..2 -> BOOLEAN],
     t : 0..(IF MaxTail <= 3 THEN MaxTail ELSE 3)]

Defects(sh) ==
    Cardinality({k \in 1..3 : sh.v[k] \in OddVals})
    + Cardinality({k \in 1..3 : ~sh.s[k]})
    + Cardinality({k \in 1..3 : sh.u[k] # "ok"})

Comma(b) == IF b THEN <<",">> ELSE <<>>

UnitText(k, c) ==
    IF c = "ok" THEN <<UnitOf[k]>> ELSE IF c = "wrong" THEN <<WrongUnit[k]>> ELSE <<>>

Render(sh) ==
    sh.v[1] \o Comma(sh.s[1]) \o UnitText(1, sh.u[1]) \o Comma(sh.g[1])
    \o sh.v[2] \o Comma(sh.s[2]) \o UnitText(2, sh.u[2]) \o Comma(sh.g[2])
    \o sh.v[3] \o Comma(sh.s[3]) \o UnitText(3, sh.u[3]) \o Take(Tail3, sh.t)

Whole == {Render(sh) : sh \in {x \in Shapes : Defects(x) <= MaxDefects}}

Clean == {Render(sh) : sh \in {x \in Shapes : Defects(x) = 0}}

Payloads == Whole \cup UNION {{Take(p, n) : n \in 0..Len(p)} : p \in Clean}

(***************************************************************************)
(* State after the caller has built the NmeaSentence: nothing decoded yet. *)
(***************************************************************************)
Pending == [kind |-> "Pending"]

Lines == <<"L43", "L44", "L45", "L48", "L49", "L50", "L53", "L54", "L55", "L58">>

Cursor == Len(data) - Len(i)

Init ==
    /\ message_id \in SentenceType
    /\ data \in Payloads
    /\ pc = "parse_dbs"
    /\ i = data
    /\ water_depth_feet = None
    /\ water_depth_meters = None
    /\ water_depth_fathoms = None
    /\ result = Pending
    /\ trace = <<>>

(***************************************************************************)
(* parse_dbs, lines 31-40: the sentence type guard.                        *)
(***************************************************************************)
\* Faulty variant: the two tags in each other's place
WrongSentenceHeader_swapped(expected, found) ==
    [kind |-> "Err",
     error |-> [variant |-> "WrongSentenceHeader", expected |-> found,
                found |-> expected]]

WrongSentenceHeader(expected, found) ==
    [kind |-> "Err",
     error |-> [variant |-> "WrongSentenceHeader", expected |-> expected,
                found |-> found]]

parse_dbs ==
    /\ pc = "parse_dbs"
    /\ IF message_id # "DBS"
       THEN /\ result' = WrongSentenceHeader("DBS", message_id)
            /\ pc' = "done"
       ELSE /\ result' = result
            /\ pc' = Lines[1]
    /\ UNCHANGED <<message_id, data, i, water_depth_feet, water_depth_meters,
                   water_depth_fathoms, trace>>

(***************************************************************************)
(* One `let (i, x) = parser(i)?;` line of do_parse_dbs.  r is the parser's *)
(* outcome on the current i; on Ok the binding i is shadowed by the rest   *)
(* and the walk goes to the next line, otherwise the function returns the  *)
(* converted error.  trace records the cursor before and after the line.   *)
(***************************************************************************)
Line(k, r) ==
    LET q == Try(r)
    IN  /\ pc = Lines[k]
        /\ IF q.kind = "Continue"
           THEN /\ i' = q.rest
                /\ pc' = Lines[k + 1]
                /\ result' = result
                /\ trace' = Append(trace, [step |-> k, at |-> Cursor,
                                           to |-> Len(data) - Len(q.rest),
                                           ok |-> TRUE])
           ELSE /\ i' = i
                /\ pc' = "done"
                /\ result' = q.result
                /\ trace' = Append(trace, [step |-> k, at |-> Cursor,
                                           to |-> Cursor, ok |-> FALSE])
        /\ UNCHANGED <<message_id, data>>

Bound(k, r, field) == IF pc = Lines[k] /\ r.kind = "Ok" THEN r.out ELSE field

feet_value ==
    LET r == opt(float(i), i)
    IN  /\ Line(1, r)
        /\ water_depth_feet' = Bound(1, r, water_depth_feet)
        /\ UNCHANGED <<water_depth_meters, water_depth_fathoms>>

feet_comma ==
    /\ Line(2, char(",", i))
    /\ UNCHANGED <<water_depth_feet, water_depth_meters, water_depth_fathoms>>

unit_feet ==
    /\ Line(3, char("f", i))
    /\ UNCHANGED <<water_depth_feet, water_depth_meters, water_depth_fathoms>>

meters_value ==
    LET r == opt(float(i), i)
    IN  /\ Line(4, r)
        /\ water_depth_meters' = Bound(4, r, water_depth_meters)
        /\ UNCHANGED <<water_depth_feet, water_depth_fathoms>>

meters_comma ==
    /\ Line(5, char(",", i))
    /\ UNCHANGED <<water_depth_feet, water_depth_meters, water_depth_fathoms>>

unit_meters ==
    /\ Line(6, char("M", i))
    /\ UNCHANGED <<water_depth_feet, water_depth_meters, water_depth_fathoms>>

fathoms_value ==
    LET r == opt(float(i), i)
    IN  /\ Line(7, r)
        /\ water_depth_fathoms' = Bound(7, r, water_depth_fathoms)
        /\ UNCHANGED <<water_depth_feet, water_depth_meters>>

fathoms_comma ==
    /\ Line(8, char(",", i))
    /\ UNCHANGED <<water_depth_feet, water_depth_meters, water_depth_fathoms>>

unit_fathoms ==
    /\ Line(9, char("F", i))
    /\ UNCHANGED <<water_depth_feet, water_depth_meters, water_depth_fathoms>>

(***************************************************************************)
(* Lines 58-62 and line 38: Ok(DbsData { .. }) handed back by parse_dbs.   *)
(***************************************************************************)
DbsData(feet, meters, fathoms) ==
    [water_depth_feet |-> feet, water_depth_meters |-> meters,
     water_depth_fathoms |-> fathoms]

Ok(d) == [kind |-> "Ok", data |-> d]

return_ok ==
    /\ pc = Lines[10]
    /\ result' = Ok(DbsData(water_depth_feet, water_depth_meters,
                            water_depth_fathoms))
    /\ pc' = "done"
    /\ UNCHANGED <<message_id, data, i, water_depth_feet, water_depth_meters,
                   water_depth_fathoms, trace>>

Next ==
    \/ parse_dbs
    \/ feet_value
    \/ feet_comma
    \/ unit_feet
    \/ meters_value
    \/ meters_comma
    \/ unit_meters
    \/ fathoms_value
    \/ fathoms_comma
    \/ unit_fathoms
    \/ return_ok

Spec == Init /\ [][Next]_vars

(***************************************************************************)
(* do_parse_dbs as a function of the payload: the nine lines composed.     *)
(***************************************************************************)
do_parse_dbs(s) ==
    LET a1 == opt(float(s), s)
        a2 == IF a1.kind = "Ok" THEN char(",", a1.rest) ELSE a1
        a3 == IF a2.kind = "Ok" THEN char("f", a2.rest) ELSE a2
        a4 == IF a3.kind = "Ok" THEN opt(float(a3.rest), a3.rest) ELSE a3
        a5 == IF a4.kind = "Ok" THEN char(",", a4.rest) ELSE a4
        a6 == IF a5.kind = "Ok" THEN char("M", a5.rest) ELSE a5
        a7 == IF a6.kind = "Ok" THEN opt(float(a6.rest), a6.rest) ELSE a6
        a8 == IF a7.kind = "Ok" THEN char(",", a7.rest) ELSE a7
        a9 == IF a8.kind = "Ok" THEN char("F", a8.rest) ELSE a8
    IN  IF a9.kind = "Ok" THEN Ok(DbsData(a1.out, a4.out, a7.out))
        ELSE Try(a9).result

TypeOK ==
    /\ pc \in {Lines[k] : k \in 1..10} \cup {"parse_dbs", "done"}
    /\ result.kind \in {"Pending", "Ok", "Err"}

(***************************************************************************)
(* Vocabulary of the properties.                                           *)
(***************************************************************************)
Returned == pc = "done" /\ message_id = "DBS"

V78 == <<"7", ".", "8">>

V24 == <<"2", ".", "4">>

V13 == <<"1", ".", "3">>

V225 == <<"2", "2", ".", "5">>

DecimalLits == {l \in Lits : ValueOf(l).kind = "num"}

OptValueOf(l) == IF l = <<>> THEN [some |-> FALSE] ELSE [some |-> TRUE, val |-> ValueOf(l)]

\* The documented payload: value , unit , value , unit , value , unit
DocForm(a, b, c) ==
    a \o <<",", "f", ",">> \o b \o <<",", "M", ",">> \o c \o <<",", "F">>

\* The same with no comma between a unit and the value that follows it
TightForm(a, b, c) ==
    a \o <<",", "f">> \o b \o <<",", "M">> \o c \o <<",", "F">>

Record(a, b, c) ==
    [kind |-> "Ok",
     data |-> [water_depth_feet |-> a, water_depth_meters |-> b,
               water_depth_fathoms |-> c]]

IsParseErr(r) == r.kind = "Err" /\ r.error.variant = "ParsingError"

LastStep == trace[Len(trace)]

StepKind(k) == IF k % 3 = 1 THEN "value" ELSE IF k % 3 = 2 THEN "comma" ELSE "unit"

Expected(k) == IF StepKind(k) = "comma" THEN "," ELSE UnitOf[k \div 3]

\* sign? then digits and at most one '.', with at least one digit
IsMantissa(t) ==
    LET b == IF At(t, 1) \in {"+", "-"} THEN Drop(t, 1) ELSE t
    IN  /\ \A k \in 1..Len(b) : b[k] \in Digits \cup {"."}
        /\ Cardinality({k \in 1..Len(b) : b[k] = "."}) <= 1
        /\ \E k \in 1..Len(b) : b[k] \in Digits

\* a mantissa followed by an exponent marker that no digit follows
MalformedNumberAt(s) ==
    \E n \in 1..Len(s) :
        /\ IsMantissa(Take(s, n))
        /\ At(s, n + 1) \in {"e", "E"}
        /\ LET m == IF At(s, n + 2) \in {"+", "-"} THEN n + 2 ELSE n + 1
           IN  At(s, m + 1) \notin Digits

\* s begins with a payload of the documented form
HasDocPrefix(s) ==
    \E a \in Lits \cup {<<>>}, b \in Lits \cup {<<>>}, c \in Lits \cup {<<>>} :
        IsPrefix(DocForm(a, b, c), s)

\* the token a step expects is not at the head of s
CannotMatch(k, s) ==
    IF StepKind(k) = "value" THEN MalformedNumberAt(s) ELSE At(s, 1) # Expected(k)

(***************************************************************************)
(* C1: every payload v1,f,v2,M,v3,F with three decimal literals decodes to *)
(* Ok with feet = Some(v1), meters = Some(v2), fathoms = Some(v3).         *)
(***************************************************************************)
C1_AllValuesDecoded ==
    \A a \in DecimalLits, b \in DecimalLits, c \in DecimalLits :
        (Returned /\ data = DocForm(a, b, c))
            => result = Record(OptValueOf(a), OptValueOf(b), OptValueOf(c))

(***************************************************************************)
(* C2: in a payload [v1],f,[v2],M,[v3],F an empty value gives None for its *)
(* field, the decode succeeds and every present value is Some(value).      *)
(***************************************************************************)
C2_EmptyValueIsNone ==
    \A a \in Lits \cup {<<>>}, b \in Lits \cup {<<>>}, c \in Lits \cup {<<>>} :
        (Returned /\ data = DocForm(a, b, c) /\ <<>> \in {a, b, c})
            => result = Record(OptValueOf(a), OptValueOf(b), OptValueOf(c))

(***************************************************************************)
(* C3: a sentence whose message_id is not DBS returns                      *)
(* Err(WrongSentenceHeader { expected: DBS, found: message_id }) whatever  *)
(* the payload, and no line of the field decoder has run.                  *)
(***************************************************************************)
C3_WrongHeader ==
    (message_id # "DBS" /\ pc # "parse_dbs")
        => /\ pc = "done"
           /\ result = [kind |-> "Err",
                        error |-> [variant |-> "WrongSentenceHeader",
                                   expected |-> "DBS", found |-> message_id]]
           /\ trace = <<>>
           /\ i = data
           /\ water_depth_feet = [some |-> FALSE]
           /\ water_depth_meters = [some |-> FALSE]
           /\ water_depth_fathoms = [some |-> FALSE]

C3_Witness ==
    /\ message_id = "DBT"
    /\ pc = "done"
    /\ data = TightForm(V78, V24, V13)
    /\ result.kind = "Err"

(***************************************************************************)
(* C4: a payload whose unit letter at one of the three unit positions is   *)
(* not the expected 'f', 'M', 'F' (case-sensitive) or is missing returns a *)
(* parse error and no record; 7.8,x,2.4,M,1.3,F and 7.8,f,2.4,Z,1.3,F do.  *)
(***************************************************************************)
BadUnitShapes ==
    {sh \in Shapes :
        /\ \A k \in 1..3 : sh.s[k] /\ sh.v[k] \notin OddVals
        /\ \E k \in 1..3 : sh.u[k] # "ok"}

BadUnitPayloads == {Render(sh) : sh \in BadUnitShapes}

C4_BadUnitFails ==
    Returned =>
        /\ data \in BadUnitPayloads => IsParseErr(result)
        /\ \A k \in 1..Len(trace) :
              (StepKind(trace[k].step) = "unit"
                 /\ At(data, trace[k].at + 1) # UnitOf[trace[k].step \div 3])
                  => IsParseErr(result)

C4_Witness ==
    /\ Returned
    /\ data = V78 \o <<",", "x", ",">> \o V24 \o <<",", "M", ",">> \o V13 \o <<",", "F">>
    /\ IsParseErr(result)
    /\ LastStep.step = 3

(***************************************************************************)
(* C5: a payload with extra content after the third unit letter, such as   *)
(* 7.8,f,2.4,M,1.3,F,A , decodes successfully to the record of the payload *)
(* without the extra content.                                              *)
(***************************************************************************)
C5_TrailingIgnored ==
    \A a \in Lits \cup {<<>>}, b \in Lits \cup {<<>>}, c \in Lits \cup {<<>>} :
        \A t \in 1..Len(Tail3) :
            (Returned /\ data = DocForm(a, b, c) \o Take(Tail3, t))
                => /\ result.kind = "Ok"
                   /\ result = do_parse_dbs(DocForm(a, b, c))

(***************************************************************************)
(* C6: parse_dbs is total: every call ends with Ok(record) or Err(error),  *)
(* and a malformed payload, one that does not begin with                   *)
(* value? , f , value? , M , value? , F , always ends in Err.              *)
(***************************************************************************)
StepsRun ==
    IF pc = "parse_dbs" THEN 0
    ELSE IF pc = "done" THEN Len(trace)
    ELSE (CHOOSE k \in 1..10 : Lines[k] = pc) - 1

\* The program point fixes how many decoder lines have run, at most nine, and
\* a result is there exactly when the call has returned
C6_EndsWithResult ==
    /\ Len(trace) = StepsRun
    /\ Len(trace) <= 9
    /\ pc = "done" <=> result.kind \in {"Ok", "Err"}

C6_Total ==
    /\ C6_EndsWithResult
    /\ (Returned /\ ~HasDocPrefix(data)) => result.kind = "Err"

(***************************************************************************)
(* C7: the field decoder returns Ok exactly for the payloads that begin    *)
(* with value? , f , value? , M , value? , F  (a comma on both sides of    *)
(* the first two unit letters).                                            *)
(***************************************************************************)
C7_AcceptsDocGrammar ==
    Returned => (result.kind = "Ok" <=> HasDocPrefix(data))

(***************************************************************************)
(* C8: the field decoder walks nine steps in the order value, ',', 'f',    *)
(* value, ',', 'M', value, ',', 'F'; each step starts where the previous   *)
(* one ended, the cursor never moves back, a separator or unit step        *)
(* consumes exactly its one character, a value step that finds no number   *)
(* consumes nothing, nothing is consumed between a unit letter and the     *)
(* next value step, and an absent comma at a separator step is an error.   *)
(***************************************************************************)
FieldAt(k) ==
    IF k = 1 THEN water_depth_feet
    ELSE IF k = 4 THEN water_depth_meters ELSE water_depth_fathoms

Complete ==
    {DocForm(a, b, c) : a \in Lits \cup {<<>>}, b \in Lits \cup {<<>>}, c \in Lits \cup {<<>>}}
    \cup
    {TightForm(a, b, c) : a \in Lits \cup {<<>>}, b \in Lits \cup {<<>>}, c \in Lits \cup {<<>>}}

CutShort == UNION {{Take(p, n) : n \in 0..(Len(p) - 1)} : p \in Complete}

C9_PrematureEndFails ==
    Returned =>
        /\ data \in CutShort => IsParseErr(result)
        /\ result.kind = "Ok" => (Cursor >= 6 /\ data[Cursor] = "F")
        /\ result.kind = "Ok" =>
              \A n \in 0..(Cursor - 1) : do_parse_dbs(Take(data, n)).kind = "Err"

C9_Witness ==
    /\ Returned
    /\ data = V78 \o <<",", "f">> \o V24 \o <<",", "M">>
    /\ IsParseErr(result)
    /\ result.error.input = <<>>

(***************************************************************************)
(* C10: a failing decode fails at the first step whose expected token      *)
(* cannot be matched, runs no later step, skips no field, and its error    *)
(* carries the unconsumed remainder of the payload at that step.           *)
(***************************************************************************)
C10_FailsAtFirstMismatch ==
    /\ \A k \in 1..Len(trace) :
          LET rest == Drop(data, trace[k].at)
          IN  trace[k].ok <=> ~CannotMatch(trace[k].step, rest)
    /\ (Returned /\ result.kind = "Err") =>
          /\ trace # <<>>
          /\ ~LastStep.ok
          /\ \A k \in 1..(Len(trace) - 1) : trace[k].ok
          /\ LastStep.to = LastStep.at
          /\ Cursor = LastStep.at
          /\ IsParseErr(result)
          /\ result.error.input = Drop(data, LastStep.at)
          /\ LastStep.step <= 7 => ~water_depth_fathoms.some
          /\ LastStep.step <= 4 => ~water_depth_meters.some
          /\ LastStep.step = 1 => ~water_depth_feet.some

C10_Witness ==
    /\ Returned
    /\ data = DocForm(V78, V24, V13)
    /\ IsParseErr(result)
    /\ LastStep.step = 6
    /\ result.error.input = V24 \o <<",", "M", ",">> \o V13 \o <<",", "F">>

====
